---------------------------- MODULE Spec2Model ----------------------------
(***************************************************************************)
(* A model of the image vectorizer's prediction operation                  *)
(* (src/predict.py, Predictor.predict).                                    *)
(*                                                                         *)
(* One call of predict is a process with a position pc[c]:                 *)
(*   idle -> entered -> opened -> ready -> waiting -> metrics -> done      *)
(* and "failed" when an exception leaves the call.  The external tracing   *)
(* engine (vtracer) is a second process per call, proc[c], which reads the *)
(* argument vector it was started with, may write a file at the path that  *)
(* follows its --output flag, and exits with a status and a standard-error *)
(* text.  The file system is the map fs from temporary-file names to file  *)
(* sizes.  The wall clock is the counter now.                              *)
(*                                                                         *)
(* Text is modelled as TLA+ strings; numbers are converted to text digit   *)
(* by digit as str() does.  segment_length is a float with one decimal     *)
(* digit in every input drawn here and is held in tenths (35 is 3.5).      *)
(* Sizes and ratios are exact rationals [num, den]: floating-point         *)
(* rounding is not modelled.                                               *)
(***************************************************************************)
EXTENDS Integers, Sequences, FiniteSets, TLC

VARIABLES
    pc,             \* pc[c]: the position of call c in predict
    req,            \* req[c]: the raw request the host received for call c
    params,         \* params[c]: the arguments predict runs with (defaults applied)
    start_time,     \* start_time[c]: line 80
    file_size,      \* file_size[c]: line 92
    output_path,    \* output_path[c]: line 107 (0: not allocated yet)
    cmd,            \* cmd[c]: line 110, the argument vector
    spawns,         \* spawns[c]: how many times subprocess.run was called
    proc,           \* proc[c]: the engine process of call c
    metrics,        \* metrics[c]: lines 158-173
    error,          \* error[c]: the exception that left call c
    returned,       \* returned[c]: the path predict returned (0: none)
    fs,             \* fs[p]: size of the file named p, NoFile when there is none
    now,            \* the wall clock, time.time()
    engineAvailable \* whether "vtracer" can be found and started on PATH

vars == <<pc, req, params, start_time, file_size, output_path, cmd, spawns,
          proc, metrics, error, returned, fs, now, engineAvailable>>

-----------------------------------------------------------------------------
(* Bounds of the model *)

NumCalls == 2       \* calls of predict a host may have open at once
MaxSize  == 2       \* file sizes 0..MaxSize are drawn besides the sample sizes
MaxTime  == 2       \* the clock runs from 0 to MaxTime

Calls == 1..NumCalls
Paths == 1..NumCalls   \* names tempfile.mktemp may return: one per call suffices
NoFile == -1
NoPath == 0

-----------------------------------------------------------------------------
(* The declared inputs of predict: lines 26-77 *)

NumNames == {"filter_speckle", "color_precision", "layer_difference",
             "corner_threshold", "segment_length", "splice_threshold"}
EnumNames == {"color_mode", "hierarchical"}

\* Bounds with le=100 of filter_speckle mistyped as le=101.
BoundsLoose ==
    [filter_speckle   |-> [ge |-> 0,  le |-> 101],
     color_precision  |-> [ge |-> 1,  le |-> 8],
     layer_difference |-> [ge |-> 0,  le |-> 100],
     corner_threshold |-> [ge |-> 0,  le |-> 180],
     segment_length   |-> [ge |-> 35, le |-> 500],
     splice_threshold |-> [ge |-> 0,  le |-> 180]]

\* ge= and le= of every numeric Input; segment_length in tenths.
Bounds ==
    [filter_speckle   |-> [ge |-> 0,  le |-> 100],
     color_precision  |-> [ge |-> 1,  le |-> 8],
     layer_difference |-> [ge |-> 0,  le |-> 100],
     corner_threshold |-> [ge |-> 0,  le |-> 180],
     segment_length   |-> [ge |-> 35, le |-> 500],
     splice_threshold |-> [ge |-> 0,  le |-> 180]]

\* choices= of every enum Input.
Choices ==
    [color_mode   |-> {"color", "binary"},
     hierarchical |-> {"stacked", "cutout"}]

\* default= of every Input; segment_length in tenths.
NumDefaults ==
    [filter_speckle   |-> 4,
     color_precision  |-> 6,
     layer_difference |-> 16,
     corner_threshold |-> 60,
     segment_length   |-> 100,
     splice_threshold |-> 45]

EnumDefaults ==
    [color_mode   |-> "color",
     hierarchical |-> "stacked"]

\* One step of a parameter: 1 for an int, 1.0 (ten tenths) for the float.
Unit(n) == IF n = "segment_length" THEN 10 ELSE 1


-----------------------------------------------------------------------------
(* Text: str() of an int and of a float, and the temporary-file names *)

Digit == <<"0", "1", "2", "3", "4", "5", "6", "7", "8", "9">>

RECURSIVE NatStr(_)
NatStr(n) == IF n < 10 THEN Digit[n + 1]
             ELSE NatStr(n \div 10) \o Digit[(n % 10) + 1]

\* str(i) of an int: line 116
IntStr(i) == IF i < 0 THEN "-" \o NatStr(0 - i) ELSE NatStr(i)

\* str(x) of a float held in tenths: "10.0", "3.5": line 120
FloatStr(t) == IF t < 0 THEN "-" \o NatStr((0 - t) \div 10) \o "." \o Digit[((0 - t) % 10) + 1]
               ELSE NatStr(t \div 10) \o "." \o Digit[(t % 10) + 1]

\* str(v) of the numeric parameter n
NumStr(n, v) == IF n = "segment_length" THEN FloatStr(v) ELSE IntStr(v)

\* The name tempfile.mktemp(suffix=".svg") returns for candidate p: line 107
PathStr(p) == "/tmp/tmp" \o NatStr(p) \o ".svg"

-----------------------------------------------------------------------------
(* Exact rationals, for the true divisions of lines 160 and 173 *)

RECURSIVE GCD(_, _)
GCD(a, b) == IF b = 0 THEN a ELSE GCD(b, a % b)

Abs(i) == IF i < 0 THEN 0 - i ELSE i

\* n/d in lowest terms with a positive denominator (d # 0)
Frac(n, d) ==
    LET s == IF d < 0 THEN 0 - 1 ELSE 1
        g == GCD(Abs(n), Abs(d))
    IN  [ok |-> TRUE, num |-> (s * n) \div g, den |-> (s * d) \div g]

\* The value of an expression that raised ZeroDivisionError
DivError == [ok |-> FALSE, num |-> 0, den |-> 1]

Rat(i) == [ok |-> TRUE, num |-> i, den |-> 1]

\* x / y: raises on a zero divisor
TrueDiv(x, y) ==
    IF ~x.ok \/ ~y.ok \/ y.num = 0 THEN DivError
    ELSE Frac(x.num * y.den, x.den * y.num)

Sub(x, y) ==
    IF ~x.ok \/ ~y.ok THEN DivError
    ELSE Frac(x.num * y.den - y.num * x.den, x.den * y.den)

Mul(x, y) ==
    IF ~x.ok \/ ~y.ok THEN DivError
    ELSE Frac(x.num * y.num, x.den * y.den)

\* CompressionRatio with the guard input_size >= 0 in place of input_size > 0.
CompressionRatioUnguarded(input_size, out_size) ==
    IF input_size >= 0
    THEN Mul(Sub(Rat(1), TrueDiv(Rat(out_size), Rat(input_size))), Rat(100))
    ELSE Rat(0)

\* line 160
CompressionRatio(input_size, out_size) ==
    IF input_size > 0
    THEN Mul(Sub(Rat(1), TrueDiv(Rat(out_size), Rat(input_size))), Rat(100))
    ELSE Rat(0)

\* line 173: (img.size[0] * img.size[1]) / elapsed_time / 1000
Throughput(img, elapsed_time) ==
    TrueDiv(TrueDiv(Rat(img.width * img.height), Rat(elapsed_time)), Rat(1000))

-----------------------------------------------------------------------------
(* The requests a host submits *)

\* The sizes of the input files drawn, and of the files the engine writes.
InSizes  == (0..MaxSize) \cup {1000, 10000}
OutSizes == (0..MaxSize) \cup {500, 1500, 4000}

Images ==
    {[path |-> "/in/image.png", decodable |-> TRUE, width |-> 100, height |-> 100,
      size |-> s] : s \in InSizes}
    \cup {[path |-> "/in/notes.txt", decodable |-> FALSE, width |-> 0, height |-> 0,
           size |-> 1000]}

\* What a request holds for a parameter the caller omitted.
Unset == [num |-> [n \in NumNames |-> 0 - 1000], enum |-> [e \in EnumNames |-> ""]]

\* The values a caller tries for each numeric parameter.
TestValues ==
    [filter_speckle   |-> {0 - 1, 0, 100, 101},
     color_precision  |-> {0, 1, 8, 9},
     layer_difference |-> {0 - 1, 0, 100, 101},
     corner_threshold |-> {0 - 1, 0, 180, 181},
     segment_length   |-> {25, 34, 35, 500, 501, 510},
     splice_threshold |-> {0 - 1, 0, 180, 181}]

\* The values a caller tries for each enum parameter.
EnumValues ==
    [color_mode   |-> {"color", "binary", "grey"},
     hierarchical |-> {"stacked", "cutout", "flat"}]

BareRequest(img) ==
    [image |-> img, given |-> {}, num |-> Unset.num, enum |-> Unset.enum]

\* Request r with parameter k given as v.
Give(r, k, v) ==
    IF k \in NumNames
    THEN [r EXCEPT !.given = @ \cup {k}, !.num[k] = v]
    ELSE [r EXCEPT !.given = @ \cup {k}, !.enum[k] = v]

ValuesFor(k) == IF k \in NumNames THEN TestValues[k] ELSE EnumValues[k]

\* The requests that give one more parameter than a request of R does.
OneMore(R) ==
    UNION {UNION {{Give(r, k, v) : v \in ValuesFor(k)} :
                     k \in (NumNames \cup EnumNames) \ r.given} : r \in R}

\* The image of the sample requests.
SampleImages == {i \in Images : i.decodable /\ i.size = 1000}

\* Every parameter omitted, or one given (with every image), or two given
\* (with the sample image).
Requests ==
    LET none == {BareRequest(img) : img \in Images}
        one  == {BareRequest(img) : img \in SampleImages}
    IN  none \cup OneMore(none) \cup OneMore(OneMore(one))

\* The requests of the calls that overlap in time: defaults, the sample image.
PlainRequests == {BareRequest(img) : img \in SampleImages}

-----------------------------------------------------------------------------
(* The host's check of a request against the declared inputs (cog applies   *)
(* default=, then ge=, le= and choices= of lines 26-77 before predict runs) *)

ApplyDefaults(r) ==
    [image |-> r.image,
     num   |-> [n \in NumNames |->
                  IF n \in r.given THEN r.num[n] ELSE NumDefaults[n]],
     enum  |-> [e \in EnumNames |->
                  IF e \in r.given THEN r.enum[e] ELSE EnumDefaults[e]]]

\* Violations with gt= and lt= in place of ge= and le=.
ViolationsExclusive(p) ==
    {n \in NumNames : p.num[n] <= Bounds[n].ge \/ p.num[n] >= Bounds[n].le}
    \cup {e \in EnumNames : p.enum[e] \notin Choices[e]}

\* The parameters of p that violate their declaration.
Violations(p) ==
    {n \in NumNames : p.num[n] < Bounds[n].ge \/ p.num[n] > Bounds[n].le}
    \cup {e \in EnumNames : p.enum[e] \notin Choices[e]}

-----------------------------------------------------------------------------
(* Values of the state *)

NoRequest == BareRequest([path |-> "", decodable |-> FALSE, width |-> 0,
                          height |-> 0, size |-> 0])
NoParams  == ApplyDefaults(NoRequest)
NoError   == [type |-> "none", stderr |-> "", names |-> {}]
NoProc    == [state |-> "none", args |-> <<>>, status |-> 0, stderr |-> ""]
NoMetrics == [elapsed_time |-> 0, output_size |-> 0,
              compression_ratio |-> Rat(0), speed |-> Rat(0)]

Raise(type) == [type |-> type, stderr |-> "", names |-> {}]

\* BuildCmd with the values of the two angle thresholds exchanged.
BuildCmdSwapped(p, out) ==
    <<"vtracer",
      "--input", p.image.path,
      "--output", PathStr(out),
      "--colormode", p.enum["color_mode"],
      "--hierarchical", p.enum["hierarchical"],
      "--filter_speckle", NumStr("filter_speckle", p.num["filter_speckle"]),
      "--color_precision", NumStr("color_precision", p.num["color_precision"]),
      "--layer_difference", NumStr("layer_difference", p.num["layer_difference"]),
      "--corner_threshold", NumStr("splice_threshold", p.num["splice_threshold"]),
      "--length_threshold", NumStr("segment_length", p.num["segment_length"]),
      "--splice_threshold", NumStr("corner_threshold", p.num["corner_threshold"])>>

\* lines 110-122
BuildCmd(p, out) ==
    <<"vtracer",
      "--input", p.image.path,
      "--output", PathStr(out),
      "--colormode", p.enum["color_mode"],
      "--hierarchical", p.enum["hierarchical"],
      "--filter_speckle", NumStr("filter_speckle", p.num["filter_speckle"]),
      "--color_precision", NumStr("color_precision", p.num["color_precision"]),
      "--layer_difference", NumStr("layer_difference", p.num["layer_difference"]),
      "--corner_threshold", NumStr("corner_threshold", p.num["corner_threshold"]),
      "--length_threshold", NumStr("segment_length", p.num["segment_length"]),
      "--splice_threshold", NumStr("splice_threshold", p.num["splice_threshold"])>>

\* The value that follows flag in an argument vector.
ArgOf(args, flag) ==
    args[(CHOOSE i \in 1..(Len(args) - 1) : args[i] = flag) + 1]

\* The file the engine was told to write.
EngineTarget(args) == CHOOSE p \in Paths : PathStr(p) = ArgOf(args, "--output")

Init ==
    /\ pc = [c \in Calls |-> "idle"]
    /\ req = [c \in Calls |-> NoRequest]
    /\ params = [c \in Calls |-> NoParams]
    /\ start_time = [c \in Calls |-> 0]
    /\ file_size = [c \in Calls |-> 0]
    /\ output_path = [c \in Calls |-> NoPath]
    /\ cmd = [c \in Calls |-> <<>>]
    /\ spawns = [c \in Calls |-> 0]
    /\ proc = [c \in Calls |-> NoProc]
    /\ metrics = [c \in Calls |-> NoMetrics]
    /\ error = [c \in Calls |-> NoError]
    /\ returned = [c \in Calls |-> NoPath]
    /\ fs = [p \in Paths |-> NoFile]
    /\ now = 0
    /\ engineAvailable \in BOOLEAN

-----------------------------------------------------------------------------
(* The steps of one call of predict *)

Fail(c, e) ==
    /\ pc' = [pc EXCEPT ![c] = "failed"]
    /\ error' = [error EXCEPT ![c] = e]

\* The host receives a request and checks it against the declared inputs;
\* predict is entered only with parameters that pass: lines 26-77.
Submit(c, R) ==
    /\ pc[c] = "idle"
    /\ \E r \in R :
         LET p == ApplyDefaults(r) IN
         /\ req' = [req EXCEPT ![c] = r]
         /\ IF Violations(p) # {}
            THEN /\ Fail(c, [type |-> "ValidationError", stderr |-> "",
                             names |-> Violations(p)])
                 /\ UNCHANGED params
            ELSE /\ pc' = [pc EXCEPT ![c] = "entered"]
                 /\ params' = [params EXCEPT ![c] = p]
                 /\ UNCHANGED error
    /\ UNCHANGED <<start_time, file_size, output_path, cmd, spawns, proc,
                   metrics, returned, fs, now, engineAvailable>>

\* lines 80-104: the clock is read, the image is opened and its file measured
Begin(c) ==
    /\ pc[c] = "entered"
    /\ start_time' = [start_time EXCEPT ![c] = now]
    /\ IF params[c].image.decodable
       THEN /\ file_size' = [file_size EXCEPT ![c] = params[c].image.size]
            /\ pc' = [pc EXCEPT ![c] = "opened"]
            /\ UNCHANGED error
       ELSE /\ Fail(c, Raise("UnidentifiedImageError"))
            /\ UNCHANGED file_size
    /\ UNCHANGED <<req, params, output_path, cmd, spawns, proc, metrics,
                   returned, fs, now, engineAvailable>>

\* tempfile.mktemp: a name under which no file exists at this moment; no
\* file is created and the name is not reserved.
MktempNames == {p \in Paths : fs[p] = NoFile}

\* lines 106-122: the output path is chosen and the command built
Allocate(c) ==
    /\ pc[c] = "opened"
    /\ \E p \in MktempNames :
         /\ output_path' = [output_path EXCEPT ![c] = p]
         /\ cmd' = [cmd EXCEPT ![c] = BuildCmd(params[c], p)]
    /\ pc' = [pc EXCEPT ![c] = "ready"]
    /\ UNCHANGED <<req, params, start_time, file_size, spawns, proc, metrics,
                   error, returned, fs, now, engineAvailable>>

\* SpawnError with every failure of subprocess.run reported as a failed run.
SpawnErrorAsFailedRun(available) ==
    IF available THEN NoError
    ELSE [type |-> "CalledProcessError", stderr |-> "", names |-> {}]

\* What starting "vtracer" raises: nothing, or FileNotFoundError when the
\* binary is not on the execution path: line 144
SpawnError(available) ==
    IF available THEN NoError ELSE Raise("FileNotFoundError")

\* line 144: subprocess.run starts the engine, or raises when the binary
\* cannot be found (an exception the except clause of line 152 does not catch)
StartEngine(c) ==
    /\ pc[c] = "ready"
    /\ spawns' = [spawns EXCEPT ![c] = @ + 1]
    /\ IF SpawnError(engineAvailable) = NoError
       THEN /\ proc' = [proc EXCEPT ![c] = [state |-> "running", args |-> cmd[c],
                                            status |-> 0, stderr |-> ""]]
            /\ pc' = [pc EXCEPT ![c] = "waiting"]
            /\ UNCHANGED error
       ELSE /\ Fail(c, SpawnError(engineAvailable))
            /\ UNCHANGED proc
    /\ UNCHANGED <<req, params, start_time, file_size, output_path, cmd,
                   metrics, returned, fs, now, engineAvailable>>

\* CheckExit without check=True: the exit status is not looked at.
CheckExitUnchecked(pr) == NoError

\* What check=True of subprocess.run makes of the engine's exit: lines 144-149
CheckExit(pr) ==
    IF pr.status # 0
    THEN [type |-> "CalledProcessError", stderr |-> pr.stderr, names |-> {}]
    ELSE NoError

\* lines 144-155: subprocess.run returns when the engine has exited; a
\* CalledProcessError is printed and raised again
Wait(c) ==
    /\ pc[c] = "waiting"
    /\ proc[c].state = "exited"
    /\ IF CheckExit(proc[c]) # NoError
       THEN Fail(c, CheckExit(proc[c]))
       ELSE /\ pc' = [pc EXCEPT ![c] = "metrics"]
            /\ UNCHANGED error
    /\ UNCHANGED <<req, params, start_time, file_size, output_path, cmd,
                   spawns, proc, metrics, returned, fs, now, engineAvailable>>

\* lines 158-173 as far as they get; every field is ok when nothing raised
ComputeMetrics(c) ==
    LET elapsed_time == now - start_time[c]
        output_size  == fs[output_path[c]]
    IN  [elapsed_time      |-> elapsed_time,
         output_size       |-> output_size,
         compression_ratio |-> CompressionRatio(file_size[c], output_size),
         speed             |-> Throughput(params[c].image, elapsed_time)]

\* lines 157-185: the metrics are computed and shown, the path is returned
Report(c) ==
    /\ pc[c] = "metrics"
    /\ IF fs[output_path[c]] = NoFile
       THEN /\ Fail(c, Raise("FileNotFoundError"))
            /\ UNCHANGED <<metrics, returned>>
       ELSE LET m == ComputeMetrics(c) IN
            /\ metrics' = [metrics EXCEPT ![c] = m]
            /\ IF m.compression_ratio.ok /\ m.speed.ok
               THEN /\ pc' = [pc EXCEPT ![c] = "done"]
                    /\ returned' = [returned EXCEPT ![c] = output_path[c]]
                    /\ UNCHANGED error
               ELSE /\ Fail(c, Raise("ZeroDivisionError"))
                    /\ UNCHANGED returned
    /\ UNCHANGED <<req, params, start_time, file_size, output_path, cmd,
                   spawns, proc, fs, now, engineAvailable>>

-----------------------------------------------------------------------------
(* The external engine and the clock *)

StderrTexts == {"", "invalid color mode"}

\* The ways the engine may end: success, or a failure with diagnostics.
ExitOutcomes ==
    {[status |-> 0, stderr |-> ""]}
    \cup {[status |-> 1, stderr |-> t] : t \in StderrTexts}

\* The engine writes a file of some size at the path it was given.
EngineWrite(c, S) ==
    /\ proc[c].state = "running"
    /\ \E s \in S : fs' = [fs EXCEPT ![EngineTarget(proc[c].args)] = s]
    /\ proc' = [proc EXCEPT ![c].state = "wrote"]
    /\ UNCHANGED <<pc, req, params, start_time, file_size, output_path, cmd,
                   spawns, metrics, error, returned, now, engineAvailable>>

\* The engine exits, having written a file or not.
EngineExit(c) ==
    /\ proc[c].state \in {"running", "wrote"}
    /\ \E o \in ExitOutcomes :
         proc' = [proc EXCEPT ![c].state = "exited", ![c].status = o.status,
                              ![c].stderr = o.stderr]
    /\ UNCHANGED <<pc, req, params, start_time, file_size, output_path, cmd,
                   spawns, metrics, error, returned, fs, now, engineAvailable>>

Tick ==
    /\ now < MaxTime
    /\ now' = now + 1
    /\ UNCHANGED <<pc, req, params, start_time, file_size, output_path, cmd,
                   spawns, proc, metrics, error, returned, fs, engineAvailable>>

-----------------------------------------------------------------------------
(* Spec: one call at a time, every request.  SpecConc: NumCalls calls that *)
(* overlap, each with the default parameters.                              *)

Next ==
    \/ Submit(1, Requests)
    \/ Begin(1)
    \/ Allocate(1)
    \/ StartEngine(1)
    \/ EngineWrite(1, OutSizes)
    \/ EngineExit(1)
    \/ Wait(1)
    \/ Report(1)
    \/ Tick

Spec == Init /\ [][Next]_vars

NextConc ==
    \/ \E c \in Calls : Submit(c, PlainRequests)
    \/ \E c \in Calls : Begin(c)
    \/ \E c \in Calls : Allocate(c)
    \/ \E c \in Calls : StartEngine(c)
    \/ \E c \in Calls : EngineWrite(c, {0, 500})
    \/ \E c \in Calls : EngineExit(c)
    \/ \E c \in Calls : Wait(c)
    \/ \E c \in Calls : Report(c)
    \/ Tick

SpecConc == Init /\ [][NextConc]_vars

-----------------------------------------------------------------------------
(* The parameter table of the specification, section 3, against which the  *)
(* properties below are stated (segment_length in tenths)                  *)

DeclaredBounds ==
    [filter_speckle   |-> [lo |-> 0,  hi |-> 100],
     color_precision  |-> [lo |-> 1,  hi |-> 8],
     layer_difference |-> [lo |-> 0,  hi |-> 100],
     corner_threshold |-> [lo |-> 0,  hi |-> 180],
     segment_length   |-> [lo |-> 35, hi |-> 500],
     splice_threshold |-> [lo |-> 0,  hi |-> 180]]

DeclaredChoices ==
    [color_mode   |-> {"color", "binary"},
     hierarchical |-> {"stacked", "cutout"}]

DeclaredDefaults ==
    [filter_speckle   |-> 4,
     color_precision  |-> 6,
     layer_difference |-> 16,
     corner_threshold |-> 60,
     segment_length   |-> 100,
     splice_threshold |-> 45,
     color_mode       |-> "color",
     hierarchical     |-> "stacked"]

\* The value request r asks for parameter k: the given one, else the default.
Asked(r, k) ==
    IF k \notin r.given THEN DeclaredDefaults[k]
    ELSE IF k \in NumNames THEN r.num[k] ELSE r.enum[k]

InDomain(r, k) ==
    IF k \in NumNames
    THEN Asked(r, k) >= DeclaredBounds[k].lo /\ Asked(r, k) <= DeclaredBounds[k].hi
    ELSE Asked(r, k) \in DeclaredChoices[k]

RequestInDomain(r) == \A k \in NumNames \cup EnumNames : InDomain(r, k)

\* The engine of call c was started, or its start was attempted.
Invoked(c) == spawns[c] > 0 \/ proc[c].state # "none"

\* The decimal text of the in-domain values the requests ask for.
TextOfInt(i) ==
    CASE i = 0 -> "0"     [] i = 1 -> "1"     [] i = 4 -> "4"   [] i = 6 -> "6"
      [] i = 8 -> "8"     [] i = 16 -> "16"   [] i = 45 -> "45" [] i = 60 -> "60"
      [] i = 100 -> "100" [] i = 180 -> "180" [] OTHER -> "?"

TextOfTenths(t) ==
    CASE t = 35 -> "3.5" [] t = 100 -> "10.0" [] t = 500 -> "50.0" [] OTHER -> "?"

TextOf(r, k) ==
    IF k \in EnumNames THEN Asked(r, k)
    ELSE IF k = "segment_length" THEN TextOfTenths(Asked(r, k))
    ELSE TextOfInt(Asked(r, k))

-----------------------------------------------------------------------------
(* C1: the engine is started only for a request whose six numeric          *)
(* parameters lie within their declared inclusive bounds and whose two     *)
(* enum parameters hold a declared value; a request with any parameter     *)
(* outside its domain has failed with ValidationError, no subprocess.run   *)
(* call and no engine process.                                             *)
C1_ValidationGate ==
    \A c \in Calls :
      /\ Invoked(c) => RequestInDomain(req[c])
      /\ (pc[c] # "idle" /\ ~RequestInDomain(req[c]))
            => /\ pc[c] = "failed"
               /\ error[c].type = "ValidationError"
               /\ ~Invoked(c)

\* filter_speckle=101 was submitted and the call has failed.
C1_Witness ==
    \E c \in Calls :
      /\ "filter_speckle" \in req[c].given
      /\ req[c].num["filter_speckle"] = 101
      /\ pc[c] = "failed"

(* C2: for each numeric parameter, a given value exactly at its lower or   *)
(* upper bound is not reported by validation, and a request whose values   *)
(* are all in their domains and whose image can be opened never ends       *)
(* before subprocess.run was called; a given value one unit outside either *)
(* bound makes the call fail with a ValidationError that names that        *)
(* parameter.                                                              *)
C2_BoundaryValues ==
    \A c \in Calls : \A n \in NumNames :
      (pc[c] # "idle" /\ n \in req[c].given) =>
        LET v == req[c].num[n] IN
        /\ v \in {DeclaredBounds[n].lo, DeclaredBounds[n].hi} =>
              /\ n \notin error[c].names
              /\ RequestInDomain(req[c]) =>
                    /\ error[c].type # "ValidationError"
                    /\ (req[c].image.decodable /\ pc[c] = "failed") => spawns[c] = 1
        /\ v \in {DeclaredBounds[n].lo - Unit(n), DeclaredBounds[n].hi + Unit(n)} =>
              /\ pc[c] = "failed"
              /\ error[c].type = "ValidationError"
              /\ n \in error[c].names

\* segment_length=3.5, its lower bound, was submitted and the engine started.
C2_Witness ==
    \E c \in Calls :
      /\ "segment_length" \in req[c].given
      /\ req[c].num["segment_length"] = 35
      /\ proc[c].state = "running"

(* C3: once the engine has exited with a non-zero status, the call can     *)
(* only wait or fail; it fails with a CalledProcessError (the              *)
(* EngineExecutionError of the specification) whose stderr is the text the *)
(* engine wrote, subprocess.run was called exactly once, and no path is    *)
(* returned.                                                               *)
C3_EngineFailure ==
    \A c \in Calls :
      (proc[c].state = "exited" /\ proc[c].status # 0) =>
        /\ pc[c] \in {"waiting", "failed"}
        /\ spawns[c] = 1
        /\ returned[c] = NoPath
        /\ pc[c] = "failed" =>
              /\ error[c].type = "CalledProcessError"
              /\ error[c].stderr = proc[c].stderr

\* The engine exited with status 1 and "invalid color mode"; the call failed.
C3_Witness ==
    \E c \in Calls :
      /\ proc[c].status = 1
      /\ proc[c].stderr = "invalid color mode"
      /\ pc[c] = "failed"
      /\ error[c].stderr = "invalid color mode"

(* C4: when the engine binary cannot be found, a call that reached         *)
(* subprocess.run has failed with FileNotFoundError (the                   *)
(* EngineUnavailableError of the specification), which is not the          *)
(* CalledProcessError of a failed run; subprocess.run was called once, no  *)
(* engine process exists and no path is returned.                          *)
C4_EngineUnavailable ==
    \A c \in Calls :
      (~engineAvailable /\ spawns[c] > 0) =>
        /\ pc[c] = "failed"
        /\ error[c].type = "FileNotFoundError"
        /\ error[c].type # "CalledProcessError"
        /\ spawns[c] = 1
        /\ proc[c].state = "none"
        /\ returned[c] = NoPath

\* The binary is missing and a call has tried to start it.
C4_Witness ==
    \E c \in Calls : ~engineAvailable /\ spawns[c] = 1 /\ pc[c] = "failed"

(* C5: whenever a call has returned an output path, the file at that path  *)
(* exists and is not empty.                                                *)
C5_OutputNonEmpty ==
    \A c \in Calls :
      returned[c] # NoPath => (fs[returned[c]] # NoFile /\ fs[returned[c]] > 0)

(* C6: the argument vector the engine is started with is "vtracer"         *)
(* followed by exactly ten flag/value pairs, for input path, output path,  *)
(* color mode, hierarchical mode, speckle filter, color precision, layer   *)
(* difference, corner threshold, segment length and splice threshold, each *)
(* value the text of the parameter the request asked for (its declared     *)
(* default when omitted), and the output value is the path the call        *)
(* returns.                                                                *)
C6_Invocation ==
    \A c \in Calls :
      proc[c].state # "none" =>
        LET a == proc[c].args
            r == req[c]
        IN  /\ Len(a) = 21
            /\ a[1] = "vtracer"
            /\ Cardinality({a[2 * i] : i \in 1..10}) = 10
            /\ \A i \in 1..10 : a[2 * i] \in
                  {"--input", "--output", "--colormode", "--hierarchical",
                   "--filter_speckle", "--color_precision", "--layer_difference",
                   "--corner_threshold", "--length_threshold", "--splice_threshold"}
            /\ ArgOf(a, "--input") = r.image.path
            /\ ArgOf(a, "--output") = PathStr(output_path[c])
            /\ ArgOf(a, "--colormode") = TextOf(r, "color_mode")
            /\ ArgOf(a, "--hierarchical") = TextOf(r, "hierarchical")
            /\ ArgOf(a, "--filter_speckle") = TextOf(r, "filter_speckle")
            /\ ArgOf(a, "--color_precision") = TextOf(r, "color_precision")
            /\ ArgOf(a, "--layer_difference") = TextOf(r, "layer_difference")
            /\ ArgOf(a, "--corner_threshold") = TextOf(r, "corner_threshold")
            /\ ArgOf(a, "--length_threshold") = TextOf(r, "segment_length")
            /\ ArgOf(a, "--splice_threshold") = TextOf(r, "splice_threshold")
            /\ pc[c] = "done" =>
                  (returned[c] # NoPath /\ ArgOf(a, "--output") = PathStr(returned[c]))

\* A call given corner_threshold=0 and segment_length=50.0 returned its path.
C6_Witness ==
    \E c \in Calls :
      /\ req[c].given = {"corner_threshold", "segment_length"}
      /\ req[c].num["corner_threshold"] = 0
      /\ req[c].num["segment_length"] = 500
      /\ pc[c] = "done"

\* The metrics of call c were computed: line 160 was executed.
MetricsComputed(c) ==
    pc[c] = "done" \/ (pc[c] = "failed" /\ error[c].type = "ZeroDivisionError")

(* C7: the compression ratio computed for input size i and output size o   *)
(* is (1 - o/i) * 100 when i > 0 (50 for 1000/500, -50 for 1000/1500, 60   *)
(* for 10000/4000) and 0 when i = 0, and its computation never raises a    *)
(* division error.                                                         *)
C7_CompressionRatio ==
    \A c \in Calls :
      MetricsComputed(c) =>
        LET i == file_size[c]
            o == metrics[c].output_size
            r == metrics[c].compression_ratio
        IN  /\ r.ok
            /\ r.den > 0
            /\ i > 0 => r.num * i = 100 * (i - o) * r.den
            /\ i = 0 => r.num = 0
            /\ (i = 1000 /\ o = 500) => (r.num = 50 /\ r.den = 1)
            /\ (i = 1000 /\ o = 1500) => (r.num = 0 - 50 /\ r.den = 1)
            /\ (i = 10000 /\ o = 4000) => (r.num = 60 /\ r.den = 1)

\* A 1000-byte input gave a 1500-byte output: the ratio is -50.
C7_Witness ==
    \E c \in Calls :
      /\ pc[c] = "done"
      /\ file_size[c] = 1000
      /\ metrics[c].output_size = 1500
      /\ metrics[c].compression_ratio = Rat(0 - 50)

(* C8: when the engine has succeeded and the measured elapsed time is      *)
(* zero, the call does not fail with a division error.                     *)
C8_ZeroElapsed ==
    \A c \in Calls :
      (proc[c].state = "exited" /\ proc[c].status = 0
         /\ fs[output_path[c]] # NoFile /\ now - start_time[c] = 0)
        => ~(pc[c] = "failed" /\ error[c].type = "ZeroDivisionError")

\* Call c holds an allocated output path and has not ended.
InFlight(c) == pc[c] \in {"ready", "waiting", "metrics"}

(* C9: two calls that overlap in time use different output paths.          *)
C9_DistinctPaths ==
    \A c, d \in Calls :
      (c # d /\ InFlight(c) /\ InFlight(d)) => output_path[c] # output_path[d]

(* C10: after a call has failed with its output path allocated, no file    *)
(* remains at that path.                                                   *)
C10_NoFileAfterFailure ==
    \A c \in Calls :
      (pc[c] = "failed" /\ output_path[c] # NoPath) => fs[output_path[c]] = NoFile
=============================================================================
